---------------------------- MODULE Spec2Model ----------------------------
(***************************************************************************)
(* Model of the vigilante reporter's block-event dispatcher                *)
(* (src/submitter/ckpt_relayer.go, package reporter part: lines 214-359).  *)
(*                                                                         *)
(* Two worker loops, blockEventHandler and zmqSequenceMessageHandler, take *)
(* block events and apply them to the shared block cache r.btcCache        *)
(* through handleConnectedBlocks / handleDisconnectedBlocks.  Every access *)
(* of a handler to the cache (Tip, Add, RemoveLast, Bootstrap) is one step *)
(* of the model, so that the steps of the two workers interleave.          *)
(*                                                                         *)
(* The cache type and Bootstrap are not part of the sources at hand; they  *)
(* are modelled from their contract in the design document (4.1, 4.2).     *)
(* Each call of the cache is taken as one atomic step; what the handlers   *)
(* do with the cache is decided by the tip they read, which may be stale   *)
(* by the time they act when both workers run.                             *)
(*                                                                         *)
(* Spec runs both workers; SpecSingle runs the block-event worker alone    *)
(* and keeps two history variables (preDisconnect, extracted).             *)
(***************************************************************************)
EXTENDS Integers, Sequences, FiniteSets, TLC

(***************************************************************************)
(* Bounds of the model.                                                    *)
(***************************************************************************)
\* number of blocks the base chain can ever announce
NumBlocks == 4

\* capacity of the block cache (its configured maximum number of entries)
MaxEntries == 2

(***************************************************************************)
(* The base chain: a block tree.  Blocks 1 .. NumBlocks-1 form a chain,    *)
(* block NumBlocks is a fork: a sibling of block NumBlocks-1.              *)
(* A block's identity is its header hash.                                  *)
(***************************************************************************)
Blocks == 1..NumBlocks

\* no block: a nil *IndexedBlock, the tip of an empty cache
NoBlock == 0

\* value of a handler's local cacheTip before it has called Tip()
Unread == -1

\* header.PrevBlock of block b
PrevBlock(b) ==
    IF b = 1 THEN NoBlock
    ELSE IF b = NumBlocks /\ NumBlocks > 2 THEN b - 2
    ELSE b - 1

RECURSIVE Height(_)
Height(b) == IF PrevBlock(b) = NoBlock THEN 0 ELSE Height(PrevBlock(b)) + 1

\* A block hash is a byte array; its string form (and the form the ZMQ
\* socket publishes) has the bytes in reverse order.
BlockHash(b) == <<b, 0>>

ReverseBytes(h) == [i \in 1..Len(h) |-> h[Len(h) + 1 - i]]

\* hex.EncodeToString: byte i of the array becomes the i-th pair of hex digits
EncodeToString(h) == [i \in 1..Len(h) |-> <<h[i] \div 16, h[i] % 16>>]

\* chainhash.NewHashFromStr: decodes the digit pairs and reverses the bytes
NewHashFromStr(s) == ReverseBytes([i \in 1..Len(s) |-> 16 * s[i][1] + s[i][2]])

\* the hash a sequence message carries for block b
ZmqHash(b) == ReverseBytes(BlockHash(b))

\* btcClient.GetBlockByHash: the block with that hash, NoBlock when there is none
GetBlockByHash(h) ==
    IF \E b \in Blocks : BlockHash(b) = h
    THEN CHOOSE b \in Blocks : BlockHash(b) = h
    ELSE NoBlock

(***************************************************************************)
(* Event types (types.BlockConnected, types.BlockDisconnected).            *)
(***************************************************************************)
BlockConnected == "BlockConnected"

BlockDisconnected == "BlockDisconnected"

EventTypes == {BlockConnected, BlockDisconnected}

NoEvent == [type |-> "none", blk |-> NoBlock]

BlockWorker == "blockEventHandler"

ZmqWorker == "zmqSequenceMessageHandler"

Workers == {BlockWorker, ZmqWorker}

VARIABLES
    btcCache,       \* r.btcCache: sequence of blocks, oldest first
    pc,             \* pc[w]: what is left to do of the handler worker w runs
    event,          \* event[w]: the event worker w is handling (or handled last)
    cacheTip,       \* cacheTip[w]: local variable cacheTip of the handler
    calls,          \* calls[w]: calls the handler made in this handling step
    panicked,       \* the process has panicked
    recording,      \* whether the run keeps the two history variables below
    preDisconnect,  \* preDisconnect[w]: the cache as it was before the block that
                    \* worker w disconnected last (and is now connecting again)
    extracted       \* hashes for which header extraction was invoked so far

VARIABLES
    closed,         \* the channels that have been closed: inbound channels
                    \* by their sender, the quit channel to stop the workers
    spc,            \* where the sealed-checkpoint worker of the submitter is
    ckpt,           \* the checkpoint it received last
    utxos,          \* what ListUnspent returned to getTopTwoUTXOs, as returned
    top,            \* the two entries getTopTwoUTXOs returned (utxo1, utxo2)
    txs,            \* the transactions buildTxWithData returned, in order
    walletCalls,    \* the wallet calls of the submission, in order
    sent,           \* the transactions the wallet accepted for broadcast
    submitErr       \* what SubmitCkpt returned

\* the state of the submitter
subVars == <<spc, ckpt, utxos, top, txs, walletCalls, sent, submitErr>>

\* the state of the reporter
repVars == <<btcCache, pc, event, cacheTip, calls, panicked, preDisconnect,
             recording, extracted>>

vars == <<btcCache, pc, event, cacheTip, calls, panicked, preDisconnect,
          recording, extracted, closed, spc, ckpt, utxos, top, txs,
          walletCalls, sent, submitErr>>

\* value of preDisconnect[w] when worker w is not in a disconnect/connect pair
NoCache == <<NoBlock>>

(***************************************************************************)
(* Block cache (design document 4.1).                                      *)
(***************************************************************************)
\* Tip(): the last element, NoBlock for an empty cache
Tip(c) == IF c = <<>> THEN NoBlock ELSE c[Len(c)]

\* Add(block) fails with InvalidChain when block does not extend the tip of
\* a non-empty cache
AddFails(c, b) == c # <<>> /\ PrevBlock(b) # Tip(c)

\* a slip in the eviction: the newest element is dropped instead of the oldest
AddEvictNewest(c, b) ==
    IF AddFails(c, b) THEN c
    ELSE IF Len(c) >= MaxEntries THEN Append(SubSeq(c, 1, Len(c) - 1), b)
    ELSE Append(c, b)

\* Add(block): appends, evicting the oldest element first at capacity
Add(c, b) ==
    IF AddFails(c, b) THEN c
    ELSE IF Len(c) >= MaxEntries THEN Append(Tail(c), b)
    ELSE Append(c, b)

\* RemoveLast() fails with EmptyCache on an empty cache
RemoveLastFails(c) == c = <<>>

\* RemoveLast(): removes the current tip
RemoveLast(c) == IF RemoveLastFails(c) THEN c ELSE SubSeq(c, 1, Len(c) - 1)

(***************************************************************************)
(* Bootstrap (design document 4.2): the cache becomes the trailing window  *)
(* of at most MaxEntries blocks ending at the base chain's best block.     *)
(***************************************************************************)
RECURSIVE TailBlocks(_, _)
TailBlocks(b, n) ==
    IF b = NoBlock \/ n = 0 THEN <<>>
    ELSE Append(TailBlocks(PrevBlock(b), n - 1), b)

BootstrapResult(best) == TailBlocks(best, MaxEntries)

(***************************************************************************)
(* The handlers' decisions: the calls a handler goes on to make, given the *)
(* tip it read.  "Bootstrap" alone is r.Bootstrap(true) followed by return.*)
(***************************************************************************)
\* slip: header and checkpoint extraction in the wrong order
ConnectedPlanSwapped(tip, b) ==
    IF tip = NoBlock THEN <<"Bootstrap">>
    ELSE IF PrevBlock(b) # tip THEN <<"Bootstrap">>
    ELSE <<"Add", "processCheckpoints", "processHeaders">>

\* slip: the parent of the block is not compared with the tip
ConnectedPlanNoParentCheck(tip, b) ==
    IF tip = NoBlock THEN <<"Bootstrap">>
    ELSE <<"Add", "processHeaders", "processCheckpoints">>

\* slip: no return after the bootstrap of an empty cache
ConnectedPlanNoReturnEmpty(tip, b) ==
    IF tip = NoBlock
    THEN <<"Bootstrap", "Add", "processHeaders", "processCheckpoints">>
    ELSE IF PrevBlock(b) # tip THEN <<"Bootstrap">>
    ELSE <<"Add", "processHeaders", "processCheckpoints">>

\* slip: no return after the bootstrap of a cache that is not up to date
ConnectedPlanNoReturnMismatch(tip, b) ==
    IF tip = NoBlock THEN <<"Bootstrap">>
    ELSE IF PrevBlock(b) # tip
    THEN <<"Bootstrap", "Add", "processHeaders", "processCheckpoints">>
    ELSE <<"Add", "processHeaders", "processCheckpoints">>

\* slip: the block is processed but never added to the cache
ConnectedPlanNoAdd(tip, b) ==
    IF tip = NoBlock THEN <<"Bootstrap">>
    ELSE IF PrevBlock(b) # tip THEN <<"Bootstrap">>
    ELSE <<"processHeaders", "processCheckpoints">>

\* slip: the extraction of the block is run a second time
ConnectedPlanExtractTwice(tip, b) ==
    IF tip = NoBlock THEN <<"Bootstrap">>
    ELSE IF PrevBlock(b) # tip THEN <<"Bootstrap">>
    ELSE <<"Add", "processHeaders", "processCheckpoints",
           "processHeaders", "processCheckpoints">>

\* handleConnectedBlocks, from the read of the tip on (b is the fetched block)
ConnectedPlan(tip, b) ==
    IF tip = NoBlock THEN <<"Bootstrap">>
    ELSE IF PrevBlock(b) # tip THEN <<"Bootstrap">>
    ELSE <<"Add", "processHeaders", "processCheckpoints">>

\* slip: no return after the bootstrap, the tip is removed all the same
DisconnectedPlanNoReturn(tip, b) ==
    IF tip = NoBlock THEN <<"Bootstrap">>
    ELSE IF BlockHash(b) # BlockHash(tip) THEN <<"Bootstrap", "RemoveLast">>
    ELSE <<"RemoveLast">>

\* handleDisconnectedBlocks, from the read of the tip on (b is the event's block)
DisconnectedPlan(tip, b) ==
    IF tip = NoBlock THEN <<"Bootstrap">>
    ELSE IF BlockHash(b) # BlockHash(tip) THEN <<"Bootstrap">>
    ELSE <<"RemoveLast">>

\* slip: the failure of RemoveLast is logged and the handler returns
RemoveLastFailedPlanSwallowed == <<"Bootstrap">>

\* handleDisconnectedBlocks when RemoveLast failed: r.Bootstrap(true); panic(err)
RemoveLastFailedPlan == <<"Bootstrap", "panic">>

(***************************************************************************)
(* The submitter: checkpoints, unspent outputs, amounts.                   *)
(***************************************************************************)
\* the inbound channels of the three workers
BlockEventChan == "BlockEventChan"

ZmqSequenceMsgChan == "ZmqSequenceMsgChan"

RawCkptChan == "rawCkptChan"

\* the channel quitChan() returns, closed to signal the shutdown
QuitChan == "quit"

\* the channel a reporter worker receives from
ChanOf(w) == IF w = BlockWorker THEN BlockEventChan ELSE ZmqSequenceMsgChan

\* ckpttypes.Sealed and the other values of ckpt.Status
Sealed == "Sealed"

CkptStatuses == {"Accumulating", Sealed, "Submitted", "Confirmed", "Finalized"}

\* no checkpoint received yet
NoCkpt == [status |-> "none"]

\* the nil pointer a receive from the closed channel yields
NilCkpt == [status |-> "nil"]

\* the error value nil, and no return yet
Nil == "nil"

NoReturn == "none"

\* most entries ListUnspent returns
MaxUtxos == 3

\* btcjson.ListUnspentResult.Amount is a float64 in BTC; the model counts it
\* in halves of a satoshi, so that btcutil.NewAmount has something to round
MaxAmount == 3

\* s.btcWallet.Cfg.TxFee, a btcutil.Amount (satoshi)
TxFee == 1

\* btcutil.Amount.ToBTC: satoshi to the float
ToBTC(a) == 2 * a

\* btcutil.NewAmount: the float to satoshi, rounded to the nearest (half up)
NewAmount(f) == (f + 1) \div 2

\* ListUnspentResult.Vout values
Vouts == {0, 1}

\* what the wallet knows of an unspent output besides its transaction id
UtxoAttrs == [vout : Vouts, amount : 0..MaxAmount, spendable : BOOLEAN]

\* ListUnspentResult.TxID of the i-th output: the hash <<i>> as a string
TxIDStr(i) == EncodeToString(ReverseBytes(<<i>>))

\* the lists btcWallet.ListUnspent can return
WalletLists ==
    UNION {[1..n -> UtxoAttrs] : n \in 0..MaxUtxos}

ListUnspent(l) ==
    [i \in 1..Len(l) |->
        [txid |-> TxIDStr(i), vout |-> l[i].vout, amount |-> l[i].amount,
         spendable |-> l[i].spendable]]

\* slip: the comparator the comment above it describes, by amount only
LessByAmount(a, b) == a.amount > b.amount

\* the less function handed to sort.Slice
Less(a, b) == a.spendable /\ a.amount > b.amount

Swap(s, i, j) == [s EXCEPT ![i] = s[j], ![j] = s[i]]

\* sort.Slice on fewer than 12 elements is an insertion sort: element i sinks
\* while it is less than the one before it
RECURSIVE Sink(_, _)
Sink(s, j) ==
    IF j > 1 /\ Less(s[j], s[j - 1]) THEN Sink(Swap(s, j, j - 1), j - 1) ELSE s

RECURSIVE InsertionSort(_, _)
InsertionSort(s, i) ==
    IF i > Len(s) THEN s ELSE InsertionSort(Sink(s, i), i + 1)

SortSlice(s) == InsertionSort(s, 2)

InsufficientUTXOs == "insufficient unspent transactions"

InsufficientFees == "insufficient fees"

\* slip: the fee is not checked
GetTopTwoUTXOsNoFeeCheck(l) ==
    IF Len(l) < 2 THEN [err |-> InsufficientUTXOs, top |-> <<>>]
    ELSE LET s == SortSlice(l)
         IN  [err |-> Nil, top |-> <<s[1], s[2]>>]

\* slip: the fee is checked on the first entry only
GetTopTwoUTXOsFirstFeeOnly(l) ==
    IF Len(l) < 2 THEN [err |-> InsufficientUTXOs, top |-> <<>>]
    ELSE LET s == SortSlice(l)
         IN  IF s[1].amount < ToBTC(TxFee)
             THEN [err |-> InsufficientFees, top |-> <<>>]
             ELSE [err |-> Nil, top |-> <<s[1], s[2]>>]

\* getTopTwoUTXOs, from the list ListUnspent returned
GetTopTwoUTXOs(l) ==
    IF Len(l) < 2 THEN [err |-> InsufficientUTXOs, top |-> <<>>]
    ELSE LET s == SortSlice(l)
         IN  IF s[1].amount < ToBTC(TxFee)
             THEN [err |-> InsufficientFees, top |-> <<>>]
             ELSE IF s[2].amount < ToBTC(TxFee)
             THEN [err |-> InsufficientFees, top |-> <<>>]
             ELSE [err |-> Nil, top |-> <<s[1], s[2]>>]

\* the two chunks btctxformatter.EncodeCheckpointData makes of a checkpoint
DataChunk(n) == <<"data", n>>

\* the transaction buildTxWithData composes from utxo and data: one input,
\* the data output, the change output
MsgTx(utxo, data) ==
    [txIn  |-> << [hash |-> NewHashFromStr(utxo.txid), index |-> 0] >>,
     txOut |-> << [value |-> 0, script |-> data],
                  [value |-> NewAmount(utxo.amount) - TxFee,
                   script |-> "change"] >>]

\* the steps of buildTxWithData that can fail, in order
BuildSteps ==
    <<"NewHashFromStr", "ScriptBuilder", "GetRawChangeAddress", "DecodeString",
      "PayToAddrScript", "NewAmount", "WalletPassphrase", "DumpPrivKey",
      "SignatureScript", "Serialize">>

\* those of them that are calls to the wallet
WalletSteps == {"GetRawChangeAddress", "WalletPassphrase", "DumpPrivKey"}

IsWalletStep(x) == x \in WalletSteps

\* the wallet calls of a build that got as far as step k
BuildCalls(k) == SelectSeq(SubSeq(BuildSteps, 1, k), IsWalletStep)

\* the step DumpPrivKey
DumpPrivKeyStep == CHOOSE k \in 1..Len(BuildSteps) : BuildSteps[k] = "DumpPrivKey"

\* the submitter's worker waits in its select, nothing submitted yet
InitSubmitter ==
    /\ closed = {}
    /\ spc = "select"
    /\ ckpt = NoCkpt
    /\ utxos = <<>>
    /\ top = <<>>
    /\ txs = <<>>
    /\ walletCalls = <<>>
    /\ sent = <<>>
    /\ submitErr = NoReturn

(***************************************************************************)
(* Initial state: the reporter has bootstrapped, both workers wait.        *)
(***************************************************************************)
InitWorkers ==
    /\ InitSubmitter
    /\ btcCache \in {BootstrapResult(b) : b \in Blocks}
    /\ pc = [w \in Workers |-> <<>>]
    /\ event = [w \in Workers |-> NoEvent]
    /\ cacheTip = [w \in Workers |-> Unread]
    /\ calls = [w \in Workers |-> <<>>]
    /\ panicked = FALSE
    /\ preDisconnect = [w \in Workers |-> NoCache]
    /\ extracted = {}

\* no history is kept
Init == InitWorkers /\ recording = FALSE

\* the history variables are kept
InitRecording == InitWorkers /\ recording = TRUE

\* the worker is in its select
Idle(w) == pc[w] = <<>>

\* the handling step before this one disconnected block b and removed it
JustDisconnected(w, b) ==
    /\ event[w] = [type |-> BlockDisconnected, blk |-> b]
    /\ calls[w] = << <<"RemoveLast", b>> >>

\* the worker takes an event and starts its handler, up to the read of Tip()
StartHandler(w, type, b) ==
    /\ UNCHANGED <<closed, subVars>>
    /\ event' = [event EXCEPT ![w] = [type |-> type, blk |-> b]]
    /\ pc' = [pc EXCEPT ![w] = <<"Tip">>]
    /\ cacheTip' = [cacheTip EXCEPT ![w] = Unread]
    /\ calls' = [calls EXCEPT ![w] = <<>>]
    /\ preDisconnect' = [preDisconnect EXCEPT ![w] =
            IF type = BlockConnected /\ JustDisconnected(w, b) THEN @ ELSE NoCache]
    /\ UNCHANGED <<btcCache, panicked, recording, extracted>>

\* slip: the failed fetch is noticed only after the cache was rebuilt
FetchPanicAfterBootstrap(w, type, b) ==
    /\ event' = [event EXCEPT ![w] = [type |-> type, blk |-> NoBlock]]
    /\ pc' = [pc EXCEPT ![w] = <<"Bootstrap", "panic">>]
    /\ cacheTip' = [cacheTip EXCEPT ![w] = Unread]
    /\ calls' = [calls EXCEPT ![w] = <<>>]
    /\ preDisconnect' = [preDisconnect EXCEPT ![w] = NoCache]
    /\ UNCHANGED <<btcCache, panicked, recording, extracted, closed, subVars>>

\* GetBlockByHash failed: panic(err), before the cache is read
FetchPanic(w, type, b) ==
    /\ UNCHANGED <<closed, subVars>>
    /\ event' = [event EXCEPT ![w] = [type |-> type, blk |-> NoBlock]]
    /\ pc' = [pc EXCEPT ![w] = <<"panic">>]
    /\ cacheTip' = [cacheTip EXCEPT ![w] = Unread]
    /\ calls' = [calls EXCEPT ![w] = <<>>]
    /\ preDisconnect' = [preDisconnect EXCEPT ![w] = NoCache]
    /\ panicked' = TRUE
    /\ UNCHANGED <<btcCache, recording, extracted>>

\* the block blockEventHandler goes on with for an event of that type about
\* block b: a connected block is fetched by the hash of the event's header
\* (NoBlock: the fetch fails), a disconnected one is not fetched
NotifiedBlock(type, b, fetchOk) ==
    LET ib == GetBlockByHash(BlockHash(b))
    IN  IF type = BlockConnected /\ (~fetchOk \/ ib = NoBlock) THEN NoBlock ELSE b

\* slip: the hash of the message is parsed without reversing its bytes
SequencedBlockNoReverse(type, b, fetchOk) ==
    LET ib == GetBlockByHash(ReverseBytes(NewHashFromStr(EncodeToString(ZmqHash(b)))))
    IN  IF ~fetchOk THEN NoBlock ELSE ib

\* the block zmqSequenceMessageHandler goes on with for a message of that
\* type about block b: the block is fetched by the hash of the message,
\* whatever the event, and a connected block is fetched again by
\* handleConnectedBlocks (NoBlock: a fetch fails)
SequencedBlock(type, b, fetchOk) ==
    LET blockHash == NewHashFromStr(EncodeToString(ZmqHash(b)))
        ib == GetBlockByHash(blockHash)
    IN  IF ~fetchOk THEN NoBlock ELSE ib

\* blockEventHandler: an event arrives on BlockEventChan
BlockEventRecv ==
    /\ ~panicked
    /\ BlockEventChan \notin closed
    /\ Idle(BlockWorker)
    /\ \E type \in EventTypes, b \in Blocks, fetchOk \in BOOLEAN :
          IF NotifiedBlock(type, b, fetchOk) = NoBlock
          THEN FetchPanic(BlockWorker, type, b)
          ELSE StartHandler(BlockWorker, type, NotifiedBlock(type, b, fetchOk))

\* zmqSequenceMessageHandler: a message arrives on ZmqSequenceMsgChan
ZmqSequenceMsgRecv ==
    /\ ~panicked
    /\ ZmqSequenceMsgChan \notin closed
    /\ Idle(ZmqWorker)
    /\ \E type \in EventTypes, b \in Blocks, fetchOk \in BOOLEAN :
          IF SequencedBlock(type, b, fetchOk) = NoBlock
          THEN FetchPanic(ZmqWorker, type, b)
          ELSE StartHandler(ZmqWorker, type, SequencedBlock(type, b, fetchOk))

\* the handler reads r.btcCache.Tip() and decides
ReadTip(w) ==
    /\ UNCHANGED <<closed, subVars>>
    /\ ~panicked
    /\ pc[w] # <<>> /\ Head(pc[w]) = "Tip"
    /\ cacheTip' = [cacheTip EXCEPT ![w] = Tip(btcCache)]
    /\ pc' = [pc EXCEPT ![w] =
                IF event[w].type = BlockConnected
                THEN ConnectedPlan(Tip(btcCache), event[w].blk)
                ELSE DisconnectedPlan(Tip(btcCache), event[w].blk)]
    /\ UNCHANGED <<btcCache, event, calls, panicked, preDisconnect,
                   recording, extracted>>

\* r.Bootstrap(true): the base chain reports its best block and the cache is
\* rebuilt from it, or the chain cannot be reached and the process panics;
\* after a failed RemoveLast the handler panics when Bootstrap returns
Bootstrap(w) ==
    /\ UNCHANGED <<closed, subVars>>
    /\ ~panicked
    /\ pc[w] # <<>> /\ Head(pc[w]) = "Bootstrap"
    /\ \E best \in Blocks, ok \in BOOLEAN :
          IF ok
          THEN /\ btcCache' = BootstrapResult(best)
               /\ calls' = [calls EXCEPT ![w] = Append(@, <<"Bootstrap", best>>)]
               /\ pc' = [pc EXCEPT ![w] = Tail(@)]
               /\ panicked' = (Tail(pc[w]) # <<>> /\ Head(Tail(pc[w])) = "panic")
          ELSE /\ panicked' = TRUE
               /\ calls' = [calls EXCEPT ![w] = Append(@, <<"Bootstrap", NoBlock>>)]
               /\ UNCHANGED <<btcCache, pc>>
    /\ UNCHANGED <<event, cacheTip, preDisconnect, recording, extracted>>

\* r.btcCache.Add(ib); the call's outcome is not looked at
CacheAdd(w) ==
    /\ UNCHANGED <<closed, subVars>>
    /\ ~panicked
    /\ pc[w] # <<>> /\ Head(pc[w]) = "Add"
    /\ btcCache' = Add(btcCache, event[w].blk)
    /\ calls' = [calls EXCEPT ![w] = Append(@, <<"Add", event[w].blk>>)]
    /\ pc' = [pc EXCEPT ![w] = Tail(@)]
    /\ UNCHANGED <<event, cacheTip, panicked, preDisconnect, recording, extracted>>

\* r.processHeaders(signer, {ib})
ProcessHeaders(w) ==
    /\ UNCHANGED <<closed, subVars>>
    /\ ~panicked
    /\ pc[w] # <<>> /\ Head(pc[w]) = "processHeaders"
    /\ extracted' = IF recording THEN extracted \cup {event[w].blk} ELSE extracted
    /\ calls' = [calls EXCEPT ![w] = Append(@, <<"processHeaders", event[w].blk>>)]
    /\ pc' = [pc EXCEPT ![w] = Tail(@)]
    /\ UNCHANGED <<btcCache, event, cacheTip, panicked, preDisconnect, recording>>

\* r.processCheckpoints(signer, {ib})
ProcessCheckpoints(w) ==
    /\ UNCHANGED <<closed, subVars>>
    /\ ~panicked
    /\ pc[w] # <<>> /\ Head(pc[w]) = "processCheckpoints"
    /\ calls' = [calls EXCEPT ![w] = Append(@, <<"processCheckpoints", event[w].blk>>)]
    /\ pc' = [pc EXCEPT ![w] = Tail(@)]
    /\ UNCHANGED <<btcCache, event, cacheTip, panicked, preDisconnect,
                   recording, extracted>>

\* r.btcCache.RemoveLast(), and the branch on its error
CacheRemoveLast(w) ==
    /\ UNCHANGED <<closed, subVars>>
    /\ ~panicked
    /\ pc[w] # <<>> /\ Head(pc[w]) = "RemoveLast"
    /\ btcCache' = RemoveLast(btcCache)
    /\ calls' = [calls EXCEPT ![w] = Append(@, <<"RemoveLast", Tip(btcCache)>>)]
    /\ pc' = [pc EXCEPT ![w] =
                IF RemoveLastFails(btcCache) THEN RemoveLastFailedPlan ELSE Tail(@)]
    /\ preDisconnect' = [preDisconnect EXCEPT ![w] =
                IF recording /\ ~RemoveLastFails(btcCache) THEN btcCache ELSE NoCache]
    /\ UNCHANGED <<event, cacheTip, panicked, recording, extracted>>

\* the steps of a running handler
Handle(w) ==
    \/ ReadTip(w)
    \/ Bootstrap(w)
    \/ CacheAdd(w)
    \/ ProcessHeaders(w)
    \/ ProcessCheckpoints(w)
    \/ CacheRemoveLast(w)

\* both workers run
Next ==
    \/ BlockEventRecv
    \/ ZmqSequenceMsgRecv
    \/ \E w \in Workers : Handle(w)

Spec == Init /\ [][Next]_vars

\* only the block-event worker runs: a single dispatcher
NextSingle ==
    \/ BlockEventRecv
    \/ Handle(BlockWorker)

SpecSingle == InitRecording /\ [][NextSingle]_vars

\* only the sequence-message worker runs: a single dispatcher on the other
\* stream
NextSingleZmq ==
    \/ ZmqSequenceMsgRecv
    \/ Handle(ZmqWorker)

SpecSingleZmq == Init /\ [][NextSingleZmq]_vars

(***************************************************************************)
(* The submitter's worker, sealedCkptHandler, and the submission pipeline   *)
(* it runs for a sealed checkpoint: SubmitCkpt, ConvertCkptToTwoTxAndSubmit,*)
(* getTopTwoUTXOs, buildTxWithData, sendTxToBTC.                           *)
(***************************************************************************)
\* the reporter is not part of the submitter's process
InitNoReporter ==
    /\ btcCache = <<>>
    /\ pc = [w \in Workers |-> <<>>]
    /\ event = [w \in Workers |-> NoEvent]
    /\ cacheTip = [w \in Workers |-> Unread]
    /\ calls = [w \in Workers |-> <<>>]
    /\ panicked = FALSE
    /\ preDisconnect = [w \in Workers |-> NoCache]
    /\ extracted = {}
    /\ recording = FALSE

InitSubmitterOnly == InitSubmitter /\ InitNoReporter

\* slip: the outputs are selected again before the second transaction
BuildPcReselect(n) == IF n = 1 THEN "buildTx1" ELSE "getTopTwoUTXOs"

\* spc while transaction n is built, and while it is sent
BuildPc(n) == IF n = 1 THEN "buildTx1" ELSE "buildTx2"

SendPc(n) == IF n = 1 THEN "sendTx1" ELSE "sendTx2"

\* slip: a checkpoint is submitted whatever its status
SubmitsAnyStatus(status) == TRUE

\* the test of the worker on the checkpoint it received
Submits(status) == status = Sealed

\* a checkpoint arrives on rawCkptChan; a sealed one is handed to SubmitCkpt,
\* which first encodes it into the two data chunks
SealedCkptRecv ==
    /\ spc = "select"
    /\ RawCkptChan \notin closed
    /\ \E status \in CkptStatuses, enc \in {Nil, "Marshal", "EncodeCheckpointData"} :
          /\ ckpt' = [status |-> status]
          /\ IF ~Submits(status)
             THEN spc' = "select" /\ submitErr' = NoReturn
             ELSE IF enc # Nil
             THEN spc' = "select" /\ submitErr' = enc
             ELSE spc' = "getTopTwoUTXOs" /\ submitErr' = NoReturn
    /\ utxos' = <<>>
    /\ top' = <<>>
    /\ txs' = <<>>
    /\ walletCalls' = <<>>
    /\ sent' = <<>>
    /\ UNCHANGED <<closed, repVars>>

\* getTopTwoUTXOs: ListUnspent fails, or the list it returns is judged
CallGetTopTwoUTXOsOf(lists) ==
    /\ spc = "getTopTwoUTXOs"
    /\ walletCalls' = Append(walletCalls, "ListUnspent")
    /\ \E l \in lists, ok \in BOOLEAN :
          IF ~ok
          THEN /\ utxos' = <<>>
               /\ top' = <<>>
               /\ submitErr' = "ListUnspent"
               /\ spc' = "select"
          ELSE LET r == GetTopTwoUTXOs(ListUnspent(l))
               IN  /\ utxos' = ListUnspent(l)
                   /\ top' = r.top
                   /\ submitErr' = IF r.err = Nil THEN NoReturn ELSE r.err
                   /\ spc' = IF r.err = Nil THEN BuildPc(1) ELSE "select"
    /\ UNCHANGED <<closed, repVars, ckpt, txs, sent>>

\* getTopTwoUTXOs over every wallet of the bounds
CallGetTopTwoUTXOs == CallGetTopTwoUTXOsOf(WalletLists)

\* slip: the second transaction is built for the first selected output
BuildInputFirst(n) == top[1]

\* the output buildTxWithData is called with for transaction n
BuildInput(n) == top[n]

\* buildTxWithData for transaction n: it returns the transaction, or it
\* returns the error of step k, or (the error of DecodeAddress is dropped and
\* DumpPrivKey is called with the nil address it left) the call panics
BuildTx(n) ==
    /\ spc = BuildPc(n)
    /\ utxos' = <<>>
    /\ \E k \in 0..Len(BuildSteps), nilAddr \in BOOLEAN :
          IF nilAddr
          THEN /\ k = DumpPrivKeyStep
               /\ walletCalls' = walletCalls \o BuildCalls(k)
               /\ spc' = "panic"
               /\ UNCHANGED <<txs, submitErr>>
          ELSE IF k = 0
          THEN /\ walletCalls' = walletCalls \o BuildCalls(Len(BuildSteps))
               /\ txs' = Append(txs, MsgTx(BuildInput(n), DataChunk(n)))
               /\ spc' = SendPc(n)
               /\ UNCHANGED submitErr
          ELSE /\ walletCalls' = walletCalls \o BuildCalls(k)
               /\ submitErr' = BuildSteps[k]
               /\ spc' = "select"
               /\ UNCHANGED txs
    /\ UNCHANGED <<closed, repVars, ckpt, top, sent>>

\* sendTxToBTC for transaction n: the wallet takes it, or the call fails
SendTx(n) ==
    /\ spc = SendPc(n)
    /\ walletCalls' = Append(walletCalls, "SendRawTransaction")
    /\ \E ok \in BOOLEAN :
          IF ok
          THEN /\ sent' = Append(sent, txs[n])
               /\ spc' = IF n = 1 THEN BuildPc(2) ELSE "select"
               /\ submitErr' = IF n = 1 THEN submitErr ELSE Nil
          ELSE /\ submitErr' = "SendRawTransaction"
               /\ spc' = "select"
               /\ UNCHANGED sent
    /\ UNCHANGED <<closed, repVars, ckpt, utxos, top, txs>>

\* the sender of channel c closes it
CloseChan(c) ==
    /\ c \notin closed
    /\ closed' = closed \cup {c}
    /\ UNCHANGED <<repVars, subVars>>

\* sealedCkptHandler receives from the closed rawCkptChan: the receive yields
\* the nil pointer, and ckpt.Status dereferences it
SealedCkptRecvClosed ==
    /\ spc = "select"
    /\ RawCkptChan \in closed
    /\ ckpt' = NilCkpt
    /\ spc' = "panic"
    /\ UNCHANGED <<closed, repVars, utxos, top, txs, walletCalls, sent, submitErr>>

\* a worker of the reporter receives from its closed channel: open is false
\* and the worker returns
ReporterChanClosed(w) ==
    /\ ~panicked
    /\ Idle(w)
    /\ ChanOf(w) \in closed
    /\ pc' = [pc EXCEPT ![w] = <<"return">>]
    /\ UNCHANGED <<btcCache, event, cacheTip, calls, panicked, preDisconnect,
                   recording, extracted, closed, subVars>>

\* a worker of the reporter, in its select, takes the case <-quit and
\* returns (wg.Done is deferred)
ReporterQuit(w) ==
    /\ ~panicked
    /\ Idle(w)
    /\ QuitChan \in closed
    /\ pc' = [pc EXCEPT ![w] = <<"return">>]
    /\ UNCHANGED <<btcCache, event, cacheTip, calls, panicked, preDisconnect,
                   recording, extracted, closed, subVars>>

\* slip: the submitter's worker stops only once its channel has nothing more
\* to deliver
SealedCkptQuitDrained ==
    /\ spc = "select"
    /\ QuitChan \in closed
    /\ RawCkptChan \in closed
    /\ spc' = "return"
    /\ UNCHANGED <<closed, repVars, ckpt, utxos, top, txs, walletCalls, sent,
                   submitErr>>

\* sealedCkptHandler, in its select, takes the case <-quit and returns
\* (wg.Done is deferred)
SealedCkptQuit ==
    /\ spc = "select"
    /\ QuitChan \in closed
    /\ spc' = "return"
    /\ UNCHANGED <<closed, repVars, ckpt, utxos, top, txs, walletCalls, sent,
                   submitErr>>

\* the submitter's process
NextSubmitter ==
    \/ SealedCkptRecv
    \/ CallGetTopTwoUTXOs
    \/ \E n \in {1, 2} : BuildTx(n)
    \/ \E n \in {1, 2} : SendTx(n)
    \/ CloseChan(RawCkptChan)
    \/ SealedCkptRecvClosed

SpecSubmitter == InitSubmitterOnly /\ [][NextSubmitter]_vars

\* the reporter with both workers, whose channels may be closed
NextClosing ==
    \/ Next
    \/ \E w \in Workers : CloseChan(ChanOf(w))
    \/ \E w \in Workers : ReporterChanClosed(w)

SpecClosing == Init /\ [][NextClosing]_vars

(***************************************************************************)
(* Shutdown.  Each worker is run alone, with the messages of its channel   *)
(* arriving at any time and the quit channel closed at any time: the       *)
(* block-event worker of a reporter whose other worker has returned on its *)
(* closed channel, likewise the sequence-message worker, and the           *)
(* submitter's worker.                                                     *)
(***************************************************************************)
\* the reporter worker other than w
Other(w) == IF w = BlockWorker THEN ZmqWorker ELSE BlockWorker

\* the reporter with worker w left: the channel of the other worker was
\* closed and that worker has returned
InitReporterWith(w) ==
    /\ closed = {ChanOf(Other(w))}
    /\ spc = "select"
    /\ ckpt = NoCkpt
    /\ utxos = <<>>
    /\ top = <<>>
    /\ txs = <<>>
    /\ walletCalls = <<>>
    /\ sent = <<>>
    /\ submitErr = NoReturn
    /\ btcCache \in {BootstrapResult(b) : b \in Blocks}
    /\ pc = [v \in Workers |-> IF v = w THEN <<>> ELSE <<"return">>]
    /\ event = [v \in Workers |-> NoEvent]
    /\ cacheTip = [v \in Workers |-> Unread]
    /\ calls = [v \in Workers |-> <<>>]
    /\ panicked = FALSE
    /\ preDisconnect = [v \in Workers |-> NoCache]
    /\ extracted = {}
    /\ recording = FALSE

InitShutdown ==
    \/ \E w \in Workers : InitReporterWith(w)
    \/ InitSubmitterOnly

\* the steps of a reporter worker inside a handler
ReporterSteps == \E w \in Workers : Handle(w)

\* the wallets of the shutdown scenarios: n spendable outputs of one amount,
\* which take getTopTwoUTXOs through each of its returns
ShutdownWallets ==
    {[i \in 1..n |-> [vout |-> 0, amount |-> a, spendable |-> TRUE]] :
        n \in 0..MaxUtxos, a \in 0..MaxAmount}

\* the steps of the submitter's worker inside the pipeline
SubmitterSteps ==
    \/ CallGetTopTwoUTXOsOf(ShutdownWallets)
    \/ \E n \in {1, 2} : BuildTx(n)
    \/ \E n \in {1, 2} : SendTx(n)

\* in the submitter's process the reporter's workers do not exist
ReporterRuns == btcCache # <<>> \/ \E w \in Workers : pc[w] # <<>>

\* worker w of a running reporter returns on the quit channel
QuitsOf(w) == ReporterRuns /\ ReporterQuit(w)

\* the worker of a running submitter returns on the quit channel
SealedCkptQuits == ~ReporterRuns /\ SealedCkptQuit

NextShutdown ==
    \/ ReporterRuns /\ BlockEventRecv
    \/ ReporterRuns /\ ZmqSequenceMsgRecv
    \/ ReporterSteps
    \/ ~ReporterRuns /\ SealedCkptRecv
    \/ SubmitterSteps
    \/ CloseChan(QuitChan)
    \/ \E w \in Workers : QuitsOf(w)
    \/ SealedCkptQuits

\* a call a worker has made returns (the claim is about workers that are not
\* blocked in a call), and a worker that comes back to its select with the
\* quit channel closed again and again takes that case in the end: select
\* chooses among its ready cases at random
FairShutdown ==
    /\ WF_vars(ReporterSteps)
    /\ WF_vars(SubmitterSteps)
    /\ \A w \in Workers : SF_vars(QuitsOf(w))
    /\ SF_vars(SealedCkptQuits)

SpecShutdown == InitShutdown /\ [][NextShutdown]_vars /\ FairShutdown

(***************************************************************************)
(* Vocabulary of the properties.                                           *)
(***************************************************************************)
\* worker w has handled an event and is back in its select
Returned(w) == pc[w] = <<>> /\ event[w] # NoEvent

\* the handler worker w runs (or ran last) has made a call of that name
Made(w, op) == \E i \in 1..Len(calls[w]) : calls[w][i][1] = op

IsPrefix(s, t) == Len(s) <= Len(t) /\ s = SubSeq(t, 1, Len(s))

\* a chain segment: heights ascend by one, each block names its predecessor
Contiguous(c) ==
    \A i \in 2..Len(c) :
        /\ PrevBlock(c[i]) = c[i - 1]
        /\ Height(c[i]) = Height(c[i - 1]) + 1

\* the calls of a handler that applies connected block b
ExtractionCalls(b) ==
    << <<"Add", b>>, <<"processHeaders", b>>, <<"processCheckpoints", b>> >>

\* the handler of worker w does nothing but r.Bootstrap(true), and returns
\* when the bootstrap succeeded
OnlyBootstrap(w) ==
    /\ Len(calls[w]) <= 1
    /\ calls[w] = <<>> => pc[w] = <<"Bootstrap">>
    /\ calls[w] # <<>> =>
          /\ calls[w][1][1] = "Bootstrap"
          /\ \/ calls[w][1][2] \in Blocks /\ pc[w] = <<>>
             \/ calls[w][1][2] = NoBlock /\ panicked

\* what the handler found when it read the tip
MatchedConnected(w) ==
    /\ event[w].type = BlockConnected
    /\ cacheTip[w] \in Blocks
    /\ PrevBlock(event[w].blk) = cacheTip[w]

MismatchedConnected(w) ==
    /\ event[w].type = BlockConnected
    /\ cacheTip[w] \in Blocks
    /\ PrevBlock(event[w].blk) # cacheTip[w]

EmptyConnected(w) ==
    /\ event[w].type = BlockConnected
    /\ cacheTip[w] = NoBlock

StaleDisconnected(w) ==
    /\ event[w].type = BlockDisconnected
    /\ \/ cacheTip[w] = NoBlock
       \/ cacheTip[w] \in Blocks /\ BlockHash(event[w].blk) # BlockHash(cacheTip[w])

MatchedDisconnected(w) ==
    /\ event[w].type = BlockDisconnected
    /\ cacheTip[w] \in Blocks
    /\ BlockHash(event[w].blk) = BlockHash(cacheTip[w])

(***************************************************************************)
(* C1. Cache contiguity: with a single dispatcher worker, the cache is     *)
(* always empty or a run of blocks of ascending heights in which every     *)
(* block's previous hash is the hash of the block before it.               *)
(* Checked under SpecSingle.                                               *)
(***************************************************************************)
C1_CacheContiguity == Contiguous(btcCache)

\* a block was added to a full cache, whose oldest block was evicted
C1_Witness ==
    /\ Returned(BlockWorker)
    /\ calls[BlockWorker] = ExtractionCalls(Tip(btcCache))
    /\ Len(btcCache) = MaxEntries
    /\ Len(btcCache) >= 2
    /\ PrevBlock(btcCache[1]) # NoBlock

(***************************************************************************)
(* C2. Single-writer discipline: no two different workers issue Add,       *)
(* RemoveLast or Bootstrap on the cache; in particular no two workers read *)
(* the same tip and then both mutate the cache.                            *)
(* Stated over the calls of each worker's current or last handling step.   *)
(***************************************************************************)
IssuedMutation(w) ==
    Made(w, "Add") \/ Made(w, "RemoveLast") \/ Made(w, "Bootstrap")

C2_SingleWriter ==
    /\ Cardinality({w \in Workers : IssuedMutation(w)}) <= 1
    /\ ~ \E v, w \in Workers :
            /\ v # w
            /\ cacheTip[v] # Unread /\ cacheTip[v] = cacheTip[w]
            /\ IssuedMutation(v) /\ IssuedMutation(w)

(***************************************************************************)
(* C3. Matched Connected event: when the cache is not empty and the block's*)
(* previous hash is the hash of the tip, the handler calls Add, header     *)
(* extraction, checkpoint extraction for that block, once each and in that *)
(* order, in one handling step, and does not call Bootstrap.               *)
(***************************************************************************)
C3_MatchedConnected ==
    \A w \in Workers :
        MatchedConnected(w) =>
            /\ IsPrefix(calls[w], ExtractionCalls(event[w].blk))
            /\ Returned(w) => calls[w] = ExtractionCalls(event[w].blk)
            /\ pc[w] # <<>> => calls[w] \o [i \in 1..Len(pc[w]) |-> <<pc[w][i], event[w].blk>>]
                                  = ExtractionCalls(event[w].blk)

C3_Witness ==
    \E w \in Workers :
        /\ Returned(w)
        /\ MatchedConnected(w)
        /\ calls[w] = ExtractionCalls(event[w].blk)

(***************************************************************************)
(* C4. Connected event with a parent mismatch: when the cache is not empty *)
(* and the block's previous hash differs from the hash of the tip, the     *)
(* handler runs Bootstrap(true) and returns; it calls neither Add nor an   *)
(* extraction for the block.                                               *)
(***************************************************************************)
C4_MismatchedConnected ==
    \A w \in Workers : MismatchedConnected(w) => OnlyBootstrap(w)

C4_Witness ==
    \E w \in Workers :
        /\ Returned(w)
        /\ MismatchedConnected(w)
        /\ Made(w, "Bootstrap")

(***************************************************************************)
(* C5. Connected event with an empty cache: the handler runs               *)
(* Bootstrap(true) and returns; it calls neither Add nor an extraction for *)
(* the event's block.                                                      *)
(***************************************************************************)
C5_EmptyConnected ==
    \A w \in Workers : EmptyConnected(w) => OnlyBootstrap(w)

C5_Witness ==
    \E w \in Workers :
        /\ Returned(w)
        /\ EmptyConnected(w)
        /\ Made(w, "Bootstrap")

(***************************************************************************)
(* C6. Disconnection mismatch: for a Disconnected event that finds the     *)
(* cache empty, or whose hash is not the hash of the tip, the handler runs *)
(* Bootstrap(true) and returns without calling RemoveLast; the cache is    *)
(* then the bootstrap's result, whole.  Checked under SpecSingle.          *)
(***************************************************************************)
C6_StaleDisconnected ==
    \A w \in Workers :
        StaleDisconnected(w) =>
            /\ OnlyBootstrap(w)
            /\ ~Made(w, "RemoveLast")
            /\ Returned(w) => btcCache = BootstrapResult(calls[w][1][2])

C6_Witness ==
    \E w \in Workers :
        /\ Returned(w)
        /\ StaleDisconnected(w)
        /\ cacheTip[w] # NoBlock
        /\ Made(w, "Bootstrap")
        /\ btcCache = BootstrapResult(calls[w][1][2])

(***************************************************************************)
(* C7. Reorg idempotence.  A worker has handled a Disconnected event for   *)
(* the tip and, right after it, the Connected event for the same block.    *)
(* Checked under SpecSingle.                                               *)
(***************************************************************************)
ReorgRoundTrip(w) ==
    /\ Returned(w)
    /\ event[w].type = BlockConnected
    /\ preDisconnect[w] # NoCache

\* C7 as claimed: the cache is again what it was before the disconnect,
\* whatever it held, a single block included
C7_ReorgIdempotence ==
    \A w \in Workers : ReorgRoundTrip(w) => btcCache = preDisconnect[w]

\* C7 as amended: the cache is again what it was before the disconnect when
\* it held at least two blocks before the disconnect
C7_ReorgIdempotenceTwoBlocks ==
    \A w \in Workers :
        ReorgRoundTrip(w) /\ Len(preDisconnect[w]) >= 2 =>
            btcCache = preDisconnect[w]

C7_Witness ==
    \E w \in Workers :
        /\ ReorgRoundTrip(w)
        /\ Len(preDisconnect[w]) >= 2
        /\ calls[w] = ExtractionCalls(event[w].blk)
        /\ btcCache = preDisconnect[w]

(***************************************************************************)
(* C8. At-most-once extraction: over a run of the dispatcher, header       *)
(* extraction (and with it checkpoint extraction) is invoked at most once  *)
(* for any block hash: no step invokes it for a hash it was invoked for    *)
(* before.  Checked under SpecSingle, which records the extractions.       *)
(***************************************************************************)
C8_AtMostOnceExtraction ==
    [][\A w \in Workers :
          (/\ Len(calls'[w]) = Len(calls[w]) + 1
           /\ calls'[w][Len(calls'[w])][1] = "processHeaders")
          => calls'[w][Len(calls'[w])][2] \notin extracted]_vars

(***************************************************************************)
(* C9. Matched Disconnected event: when the event's hash is the hash of    *)
(* the tip, the handler calls RemoveLast, which leaves the cache without   *)
(* its tip; when RemoveLast fails the handler runs Bootstrap(true) and     *)
(* panics: it never returns as if nothing had happened.                    *)
(***************************************************************************)
C9_Calls ==
    \A w \in Workers :
        MatchedDisconnected(w) =>
            /\ calls[w] = <<>> => pc[w] = <<"RemoveLast">>
            /\ calls[w] # <<>> =>
                  /\ calls[w][1][1] = "RemoveLast"
                  /\ calls[w][1][2] # NoBlock =>
                        Len(calls[w]) = 1 /\ pc[w] = <<>>
                  /\ calls[w][1][2] = NoBlock =>
                        /\ ~Returned(w)
                        /\ Len(calls[w]) = 1 => pc[w] = <<"Bootstrap", "panic">>
                        /\ Len(calls[w]) > 1 =>
                              /\ Len(calls[w]) = 2
                              /\ calls[w][2][1] = "Bootstrap"
                              /\ panicked

C9_Effect ==
    \A w \in Workers :
        (/\ Len(calls'[w]) = Len(calls[w]) + 1
         /\ calls'[w][Len(calls'[w])][1] = "RemoveLast")
        => /\ MatchedDisconnected(w)
           /\ btcCache # <<>> =>
                 /\ btcCache' = SubSeq(btcCache, 1, Len(btcCache) - 1)
                 /\ calls'[w][Len(calls'[w])][2] = Tip(btcCache)
           /\ btcCache = <<>> =>
                 /\ btcCache' = <<>>
                 /\ calls'[w][Len(calls'[w])][2] = NoBlock

C9_MatchedDisconnected == [](C9_Calls) /\ [][C9_Effect]_vars

\* RemoveLast failed (the other worker had emptied the cache), the handler
\* has run Bootstrap and panicked
C9_Witness ==
    \E w \in Workers :
        /\ MatchedDisconnected(w)
        /\ Len(calls[w]) = 2
        /\ calls[w][1] = <<"RemoveLast", NoBlock>>
        /\ calls[w][2][1] = "Bootstrap"
        /\ panicked

(***************************************************************************)
(* C10. Bootstrap convergence through the dispatcher: after a handling     *)
(* step that ran Bootstrap(true) successfully, the tip of the cache is the *)
(* best block the base chain reported and the cache is a contiguous chain  *)
(* of ancestors ending at it.  Checked under SpecSingle.                   *)
(***************************************************************************)
C10_BootstrapConvergence ==
    \A w \in Workers :
        \A i \in 1..Len(calls[w]) :
            (/\ Returned(w)
             /\ calls[w][i][1] = "Bootstrap"
             /\ calls[w][i][2] \in Blocks)
            => /\ btcCache # <<>>
               /\ Tip(btcCache) = calls[w][i][2]
               /\ Contiguous(btcCache)

\* a handler has re-bootstrapped onto a best block other than the event's
C10_Witness ==
    \E w \in Workers :
        /\ Returned(w)
        /\ Made(w, "Bootstrap")
        /\ Tip(btcCache) = calls[w][1][2]
        /\ Tip(btcCache) # event[w].blk
        /\ Len(btcCache) >= 2

(***************************************************************************)
(* C11. End-to-end append effect, for a single dispatcher worker: a        *)
(* Connected event for the block that extends the tip leaves the cached    *)
(* blocks as they were and in order, with the new block after them, and    *)
(* extraction is invoked once, for the new block only.                     *)
(* Checked under SpecSingle.                                               *)
(***************************************************************************)
\* worker w makes the call r.btcCache.Add in this step
AddsNow(w) ==
    /\ Len(calls'[w]) = Len(calls[w]) + 1
    /\ calls'[w][Len(calls'[w])][1] = "Add"

\* the extraction calls of the handling step of worker w are those of block b
ExtractedOnly(w, b) ==
    /\ \A i \in 1..Len(calls[w]) :
          calls[w][i][1] \in {"processHeaders", "processCheckpoints"} =>
              calls[w][i][2] = b
    /\ Cardinality({i \in 1..Len(calls[w]) : calls[w][i][1] = "processHeaders"}) <= 1
    /\ Cardinality({i \in 1..Len(calls[w]) : calls[w][i][1] = "processCheckpoints"}) <= 1
    /\ Returned(w) => Made(w, "processHeaders") /\ Made(w, "processCheckpoints")

C11_Extraction ==
    \A w \in Workers : MatchedConnected(w) => ExtractedOnly(w, event[w].blk)

\* C11 as claimed: whatever the cache holds, all its blocks are still there
\* after the append
C11_AppendKeepsAll ==
    [][\A w \in Workers :
          AddsNow(w) => btcCache' = Append(btcCache, event[w].blk)]_vars

\* C11 as amended: all its blocks are still there when the cache was below
\* its capacity; at capacity the oldest block is gone and the others stay
C11_AppendEffect ==
    \A w \in Workers :
        AddsNow(w) =>
            /\ Tip(btcCache') = event[w].blk
            /\ Len(btcCache) < MaxEntries =>
                  btcCache' = Append(btcCache, event[w].blk)
            /\ Len(btcCache) >= MaxEntries =>
                  btcCache' = Append(Tail(btcCache), event[w].blk)

C11_AppendBelowCapacity == [](C11_Extraction) /\ [][C11_AppendEffect]_vars

\* the block was appended to a cache below capacity (its first block has no
\* predecessor, so none was evicted) and extracted
C11_Witness ==
    \E w \in Workers :
        /\ Returned(w)
        /\ MatchedConnected(w)
        /\ calls[w] = ExtractionCalls(event[w].blk)
        /\ Len(btcCache) >= 2
        /\ PrevBlock(btcCache[1]) = NoBlock
        /\ btcCache[Len(btcCache) - 1] = cacheTip[w]
        /\ Tip(btcCache) = event[w].blk

(***************************************************************************)
(* Vocabulary of the submitter's properties.                               *)
(***************************************************************************)
\* how often x occurs in the sequence q
Count(q, x) == Cardinality({i \in 1..Len(q) : q[i] = x})

\* the worker holds a checkpoint it received from the open channel
Received == ckpt # NoCkpt /\ ckpt # NilCkpt

\* SubmitCkpt returned an error
SubmitFailed == submitErr # NoReturn /\ submitErr # Nil

\* the worker is back in its select after the checkpoint
BackInSelect == spc = "select" /\ Received

\* the worker is inside ConvertCkptToTwoTxAndSubmit
InPipeline ==
    spc \in {"getTopTwoUTXOs", BuildPc(1), SendPc(1), BuildPc(2), SendPc(2)}

(***************************************************************************)
(* C12. Sealed-only submission: the worker runs the submission pipeline    *)
(* for a checkpoint it received if and only if the checkpoint's status is  *)
(* Sealed; for any other status it makes no wallet call (no ListUnspent,   *)
(* no unlock, no broadcast), reports no error and is back in its select.   *)
(* Checked under SpecSubmitter.                                            *)
(***************************************************************************)
C12_SealedOnly ==
    Received =>
        /\ ckpt.status # Sealed =>
              /\ spc = "select"
              /\ walletCalls = <<>>
              /\ txs = <<>>
              /\ sent = <<>>
              /\ submitErr = NoReturn
        /\ ckpt.status = Sealed =>
              \/ spc \in {"getTopTwoUTXOs", BuildPc(1), SendPc(1), BuildPc(2),
                          SendPc(2), "panic"}
              \/ spc = "select" /\ submitErr # NoReturn

\* a checkpoint that is not sealed was received after the channel had
\* delivered it, and nothing was done for it
C12_Witness ==
    /\ ckpt = [status |-> "Submitted"]
    /\ spc = "select"
    /\ walletCalls = <<>>
    /\ submitErr = NoReturn

(***************************************************************************)
(* C13. Non-atomicity and worker survival: when the first transaction was  *)
(* broadcast and the build or the broadcast of the second fails, SubmitCkpt*)
(* returns an error, the first transaction stays broadcast, the checkpoint *)
(* is not retried and the worker is back in its select; no failure of any  *)
(* stage of the pipeline stops the worker.                                 *)
(* Checked under SpecSubmitter.                                            *)
(***************************************************************************)
C13_WorkerSurvives ==
    /\ Received => spc # "panic"
    /\ Received /\ Len(sent) = 1 /\ spc \notin {BuildPc(2), SendPc(2)} =>
          /\ spc = "select"
          /\ SubmitFailed
          /\ sent = <<txs[1]>>
          /\ Count(walletCalls, "ListUnspent") = 1

(***************************************************************************)
(* C14. Sequential two-transaction submission: the first transaction       *)
(* (first chunk, first selected output) is built and broadcast before the  *)
(* second (second chunk, second selected output) is built; when the build  *)
(* or the broadcast of the first fails, the second is never built, signed  *)
(* or broadcast; SubmitCkpt returns nil only if both were broadcast.       *)
(* Checked under SpecSubmitter.                                            *)
(***************************************************************************)
\* transaction t spends output u and carries chunk n
BuiltFrom(t, u, n) ==
    /\ t.txIn[1].hash = NewHashFromStr(u.txid)
    /\ t.txOut[1].script = DataChunk(n)
    /\ t.txOut[2].value = NewAmount(u.amount) - TxFee

C14_Sequential ==
    /\ Len(txs) <= 2
    /\ \A n \in 1..Len(txs) : BuiltFrom(txs[n], top[n], n)
    /\ Len(txs) = 2 => sent # <<>> /\ sent[1] = txs[1]
    /\ IsPrefix(sent, txs)
    /\ sent = <<>> =>
          /\ Len(txs) <= 1
          /\ Count(walletCalls, "GetRawChangeAddress") <= 1
          /\ Count(walletCalls, "WalletPassphrase") <= 1
          /\ Count(walletCalls, "DumpPrivKey") <= 1
          /\ Count(walletCalls, "SendRawTransaction") <= 1
    /\ submitErr = Nil => Len(txs) = 2 /\ sent = txs

\* the broadcast of the first transaction failed and the submission ended
\* there
C14_Witness ==
    /\ BackInSelect
    /\ submitErr = "SendRawTransaction"
    /\ Len(txs) = 1
    /\ sent = <<>>
    /\ top[1].amount # top[2].amount

(***************************************************************************)
(* C15. UTXO selection ordering: getTopTwoUTXOs returns the two entries    *)
(* ranked highest by (spendable descending, amount descending): no entry   *)
(* of the list ranks before the first one returned, and at most one ranks  *)
(* before the second.                                                      *)
(* Checked under SpecSubmitter.                                            *)
(***************************************************************************)
\* a ranks before b in the order (spendable descending, amount descending)
RanksBefore(a, b) ==
    \/ a.spendable /\ ~b.spendable
    \/ a.spendable = b.spendable /\ a.amount > b.amount

\* getTopTwoUTXOs has just returned two entries of the list in utxos
Selected == spc = BuildPc(1) /\ top # <<>>

C15_TopTwoByRank ==
    Selected =>
        /\ top[1].txid # top[2].txid
        /\ \A i \in 1..Len(utxos) : ~RanksBefore(utxos[i], top[1])
        /\ Cardinality({i \in 1..Len(utxos) : RanksBefore(utxos[i], top[2])}) <= 1
        /\ ~RanksBefore(top[2], top[1])

(***************************************************************************)
(* C16. Spendable and funded selection: whenever getTopTwoUTXOs returns    *)
(* two entries, both are spendable and both have an amount of at least the *)
(* fee.                                                                    *)
(* Checked under SpecSubmitter.                                            *)
(***************************************************************************)
C16_SpendableAndFunded ==
    Selected =>
        \A n \in {1, 2} : top[n].spendable /\ top[n].amount >= ToBTC(TxFee)

(***************************************************************************)
(* C17. Selection error outcomes: getTopTwoUTXOs fails with the            *)
(* insufficient-UTXOs error when the list has fewer than two entries and   *)
(* with the insufficient-fees error when one of the two selected entries   *)
(* has an amount below the fee; after such a failure, or an error of       *)
(* ListUnspent, the submission has ended with that error and no            *)
(* transaction was built, the wallet was not unlocked, nothing was sent.   *)
(* Checked under SpecSubmitter.                                            *)
(***************************************************************************)
\* getTopTwoUTXOs has just returned, having got a list from ListUnspent
SelectionReturned ==
    /\ walletCalls = <<"ListUnspent">>
    /\ submitErr \in {NoReturn, InsufficientUTXOs, InsufficientFees}
    /\ spc \in {"select", BuildPc(1)}

C17_SelectionErrors ==
    /\ SelectionReturned =>
          LET s == SortSlice(utxos)
          IN  /\ Len(utxos) < 2 => submitErr = InsufficientUTXOs
              /\ Len(utxos) >= 2 =>
                    IF s[1].amount < ToBTC(TxFee) \/ s[2].amount < ToBTC(TxFee)
                    THEN submitErr = InsufficientFees
                    ELSE submitErr = NoReturn /\ top = <<s[1], s[2]>>
    /\ submitErr \in {InsufficientUTXOs, InsufficientFees, "ListUnspent"} =>
          /\ ~InPipeline
          /\ top = <<>>
          /\ txs = <<>>
          /\ sent = <<>>
          /\ walletCalls = <<"ListUnspent">>

\* the first selected entry covers the fee and the second does not
C17_Witness ==
    /\ SelectionReturned
    /\ Len(utxos) >= 2
    /\ SortSlice(utxos)[1].amount >= ToBTC(TxFee)
    /\ SortSlice(utxos)[2].amount < ToBTC(TxFee)
    /\ submitErr = InsufficientFees
    /\ spc = "select"

(***************************************************************************)
(* C18. Input outpoint: a transaction built for an unspent output has      *)
(* exactly one input, and its outpoint is the output's transaction id      *)
(* together with the output's index, whatever that index is.               *)
(* Checked under SpecSubmitter.                                            *)
(***************************************************************************)
C18_InputOutpoint ==
    \A n \in 1..Len(txs) :
        txs[n].txIn = << [hash |-> NewHashFromStr(top[n].txid),
                          index |-> top[n].vout] >>

(***************************************************************************)
(* C19. Change never underflows: every transaction the pipeline builds     *)
(* has the data chunk in output 0 with value zero and the change in        *)
(* output 1 with the output's amount less the fee, and that value is never *)
(* negative, in a transaction built as in one sent.                        *)
(* Checked under SpecSubmitter.                                            *)
(***************************************************************************)
WellFormedOutputs(t, u, n) ==
    /\ Len(t.txOut) = 2
    /\ t.txOut[1] = [value |-> 0, script |-> DataChunk(n)]
    /\ t.txOut[2].value = NewAmount(u.amount) - TxFee
    /\ t.txOut[2].value >= 0

C19_ChangeNeverUnderflows ==
    /\ \A n \in 1..Len(txs) : WellFormedOutputs(txs[n], top[n], n)
    /\ \A n \in 1..Len(sent) : WellFormedOutputs(sent[n], top[n], n)

\* both transactions were sent, one with no change left and one with some
C19_Witness ==
    /\ Len(sent) = 2
    /\ sent[2].txOut[2].value = 0
    /\ sent[1].txOut[2].value > 0

(***************************************************************************)
(* C20. Channel-closed exit: a worker that finds its inbound channel       *)
(* closed leaves its loop and returns; it handles no message that was not  *)
(* sent and it does not crash.  For the two workers of the reporter and    *)
(* for the submitter's worker.                                             *)
(* Checked under SpecSubmitter.                                            *)
(***************************************************************************)
C20_ExitStep ==
    /\ \A w \in Workers :
          ChanOf(w) \in closed /\ Idle(w) =>
              /\ pc'[w] \in {<<>>, <<"return">>}
              /\ event'[w] = event[w]
              /\ calls'[w] = calls[w]
    /\ RawCkptChan \in closed /\ spc = "select" =>
          /\ spc' \in {"select", "return"}
          /\ ckpt' = ckpt

C20_ChannelClosedExit == [][C20_ExitStep]_vars

(***************************************************************************)
(* C24. Source failure leaves the cache untouched: when the fetch of the   *)
(* block by its hash fails for a Connected event, or for a sequence        *)
(* message, the handling ends in a panic before the cache is read or       *)
(* changed: the handler makes no Add, RemoveLast or Bootstrap call and     *)
(* invokes no extraction for that event.                                   *)
(* Checked under Spec.                                                     *)
(***************************************************************************)
\* the fetch of the block of the event worker w took has failed
FetchFailed(w) == event[w] # NoEvent /\ event[w].blk = NoBlock

C24_NoCalls ==
    \A w \in Workers :
        FetchFailed(w) =>
            /\ panicked
            /\ pc[w] = <<"panic">>
            /\ cacheTip[w] = Unread
            /\ calls[w] = <<>>

\* the step in which the fetch fails, and every step after it, leaves the
\* cache as it is
C24_CacheKept ==
    (\E w \in Workers : event'[w] # NoEvent /\ event'[w].blk = NoBlock) =>
        btcCache' = btcCache

C24_SourceFailure == [](C24_NoCalls) /\ [][C24_CacheKept]_vars

\* the fetch failed for a connected sequence message, the cache being full
\* and the other worker having handled an event of its own
C24_Witness ==
    /\ FetchFailed(ZmqWorker)
    /\ event[ZmqWorker].type = BlockConnected
    /\ panicked
    /\ Len(btcCache) = MaxEntries
    /\ event[BlockWorker] # NoEvent
    /\ calls[BlockWorker] # <<>>

(***************************************************************************)
(* C23. Delivery-mechanism equivalence: from every cache state and for     *)
(* every block, handling the sequence message of an event type about the   *)
(* block leads to the same cache contents, the same Bootstrap invocations  *)
(* and the same extraction calls as handling the BlockEvent of that type   *)
(* about the block.  Both handlings meet the same base chain: the same     *)
(* outcome of a fetch by hash, the same best block told to Bootstrap.      *)
(* Checked under SpecSingleZmq.                                            *)
(***************************************************************************)
\* what a handler run alone on cache c does with plan, for block b, when
\* Bootstrap is told the best block best (NoBlock: it cannot reach the chain)
RECURSIVE RunPlan(_, _, _, _, _)
RunPlan(plan, c, log, b, best) ==
    IF plan = <<>> THEN [cache |-> c, calls |-> log, panic |-> FALSE]
    ELSE IF Head(plan) = "panic" THEN [cache |-> c, calls |-> log, panic |-> TRUE]
    ELSE IF Head(plan) = "Bootstrap" THEN
        IF best = NoBlock
        THEN [cache |-> c, calls |-> Append(log, <<"Bootstrap", NoBlock>>),
              panic |-> TRUE]
        ELSE RunPlan(Tail(plan), BootstrapResult(best),
                     Append(log, <<"Bootstrap", best>>), b, best)
    ELSE IF Head(plan) = "Add" THEN
        RunPlan(Tail(plan), Add(c, b), Append(log, <<"Add", b>>), b, best)
    ELSE IF Head(plan) = "RemoveLast" THEN
        RunPlan(IF RemoveLastFails(c) THEN RemoveLastFailedPlan ELSE Tail(plan),
                RemoveLast(c), Append(log, <<"RemoveLast", Tip(c)>>), b, best)
    ELSE RunPlan(Tail(plan), c, Append(log, <<Head(plan), b>>), b, best)

\* the handling of an event of that type, run alone from cache c, the
\* worker going on with block blk (NoBlock: its fetch failed, it panics)
Handling(type, blk, c, best) ==
    IF blk = NoBlock THEN [cache |-> c, calls |-> <<>>, panic |-> TRUE]
    ELSE RunPlan(IF type = BlockConnected
                 THEN ConnectedPlan(Tip(c), blk)
                 ELSE DisconnectedPlan(Tip(c), blk), c, <<>>, blk, best)

IsBootstrapCall(x) == x[1] = "Bootstrap"

IsExtractionCall(x) == x[1] \in {"processHeaders", "processCheckpoints"}

\* what the claim compares of a handling
Effects(r) ==
    [cache |-> r.cache,
     bootstraps |-> SelectSeq(r.calls, IsBootstrapCall),
     extractions |-> SelectSeq(r.calls, IsExtractionCall)]

\* both workers wait in their select: an event can be delivered on either
\* stream and handled from the cache as it is
BothWait == \A w \in Workers : Idle(w)

SameEffects(type, b, fetchOk, best) ==
    Effects(Handling(type, SequencedBlock(type, b, fetchOk), btcCache, best)) =
    Effects(Handling(type, NotifiedBlock(type, b, fetchOk), btcCache, best))

C22_OneSelection ==
    /\ Count(walletCalls, "ListUnspent") <= 1
    /\ InPipeline /\ spc # "getTopTwoUTXOs" =>
          walletCalls # <<>> /\ walletCalls[1] = "ListUnspent"
    /\ txs # <<>> => walletCalls # <<>> /\ walletCalls[1] = "ListUnspent"

C22_Step ==
    /\ ckpt' # ckpt => spc = "select"
    /\ spc' = "getTopTwoUTXOs" /\ spc # "getTopTwoUTXOs" =>
          /\ spc = "select"
          /\ walletCalls' = <<>>
          /\ utxos' = <<>>
          /\ top' = <<>>
          /\ txs' = <<>>
          /\ sent' = <<>>
    /\ Count(walletCalls', "ListUnspent") > Count(walletCalls, "ListUnspent") =>
          /\ spc = "getTopTwoUTXOs"
          /\ walletCalls = <<>>
          /\ \/ submitErr' = "ListUnspent" /\ top' = <<>>
             \/ top' = GetTopTwoUTXOs(utxos').top
    /\ InPipeline /\ spc' # spc =>
          \/ spc' \in {BuildPc(1), SendPc(1), BuildPc(2), SendPc(2), "panic"}
          \/ spc' = "select" /\ submitErr' # NoReturn

C22_Serialized == [](C22_OneSelection) /\ [][C22_Step]_vars

\* the second transaction of a run is about to be sent, after one selection
C22_Witness ==
    /\ spc = SendPc(2)
    /\ Len(txs) = 2
    /\ Len(sent) = 1
    /\ Count(walletCalls, "ListUnspent") = 1
    /\ Count(walletCalls, "WalletPassphrase") = 2

(***************************************************************************)
(* C21. Cooperative shutdown: once the quit channel is closed, a worker    *)
(* that waits in its select (and is not held in a call for ever)           *)
(* eventually returns, whatever its work channel still delivers: in its    *)
(* select it can always take the quit case, with no need to drain the      *)
(* channel first; once every worker of the process has returned the wait   *)
(* on the wait group completes.  A panic ends the process, and with it the *)
(* obligation.                                                             *)
(* Checked under SpecShutdown.                                             *)
(***************************************************************************)
\* the shutdown signal is raised
QuitRaised == QuitChan \in closed

\* worker w of the reporter has returned (its deferred wg.Done has run)
Done(w) == pc[w] = <<"return">>

\* the submitter's worker has returned
SealedCkptDone == spc = "return"

\* wg.Wait() of the process returns: every worker it started has returned
WaitCompletes ==
    IF ReporterRuns THEN \A w \in Workers : Done(w) ELSE SealedCkptDone

\* the process has ended in a panic
Crashed == panicked \/ spc = "panic"

\* in its select with the quit channel closed, a worker can return at once,
\* its work channel being open and able to deliver
C21_NoDrain ==
    /\ \A w \in Workers :
          ReporterRuns /\ QuitRaised /\ Idle(w) /\ ~panicked /\ ChanOf(w) \notin closed =>
              ENABLED QuitsOf(w)
    /\ ~ReporterRuns /\ QuitRaised /\ spc = "select" /\ RawCkptChan \notin closed =>
          ENABLED SealedCkptQuits

C21_CooperativeShutdown ==
    /\ [](C21_NoDrain)
    /\ \A w \in Workers :
          (ReporterRuns /\ QuitRaised /\ Idle(w)) ~> (Done(w) \/ Crashed)
    /\ (~ReporterRuns /\ QuitRaised /\ spc = "select") ~> (SealedCkptDone \/ Crashed)
    /\ QuitRaised ~> (WaitCompletes \/ Crashed)

\* the submitter's worker has returned on the quit channel after a
\* submission, its work channel still open
C21_Witness ==
    /\ QuitRaised
    /\ SealedCkptDone
    /\ WaitCompletes
    /\ RawCkptChan \notin closed
    /\ ckpt = [status |-> Sealed]
    /\ submitErr = Nil

=============================================================================
